---------------------------- MODULE Spec2Model ----------------------------
(***************************************************************************)
(* A model of the ESP32 servo library, src/src/ESP32_Servo.cpp.            *)
(*                                                                         *)
(* The class keeps a process-wide channel pool (ServoCount, ChannelUsed)   *)
(* and per-instance fields (servoChannel, ticks, timer_width,              *)
(* timer_width_ticks, pinNumber, min, max).  Every member function is one  *)
(* action; the ledc* calls it issues are recorded in ledc.                 *)
(*                                                                         *)
(* The #define constants of the header ESP32_Servo.h have the values       *)
(* given in section 6 of the specification; MAX_SERVOS (16 on the          *)
(* device, line 19 of the source) is scaled down so that the pool can be   *)
(* exhausted within the model's bounds.                                    *)
(***************************************************************************)
EXTENDS Integers, Sequences, FiniteSets, TLC

(***************************************************************************)
(* Constants of ESP32_Servo.h                                              *)
(***************************************************************************)
MAX_SERVOS == 2

MIN_PULSE_WIDTH == 500

MAX_PULSE_WIDTH == 2500

DEFAULT_uS_LOW == 544

DEFAULT_uS_HIGH == 2400

DEFAULT_TIMER_WIDTH == 16

DEFAULT_PULSE_WIDTH_TICKS == 4825

REFRESH_CPS == 50

REFRESH_USEC == 20000

(***************************************************************************)
(* Bounds of the model                                                     *)
(***************************************************************************)
\* instances constructed in one run: one more than the pool holds
MaxInstances == MAX_SERVOS + 1

\* member calls (constructions included) a sketch makes in one run
MaxCalls == 7

\* the pins a sketch attaches to
Pins == {13}

\* the (min, max) pairs a sketch passes to attach(pin, min, max)
AttachBounds == {<<400, 2600>>, <<2000, 1000>>}

\* the arguments a sketch passes to write
WriteInputs == {90}

\* the arguments a sketch passes to writeMicroseconds
PulseInputs == {1500}

\* the arguments a sketch passes to setTimerWidth
WidthInputs == {15, 17}

\* the arguments of write/writeMicroseconds in SpecConv: -PulseBelow..PulseLast
PulseBelow == 5

PulseLast == 2600

\* the arguments of setTimerWidth in SpecConv
ConvWidths == 16..20

\* the arguments of setTimerWidth in SpecWidth
TimerWidths == 15..21

\* the (min, max) pairs of attach(pin, min, max) in SpecConv
ConvBounds == AttachBounds \cup {<<2600, 400>>}

(***************************************************************************)
(* State                                                                   *)
(***************************************************************************)
VARIABLES
    ServoCount,   \* static int Servo::ServoCount
    ChannelUsed,  \* static int Servo::ChannelUsed[MAX_SERVOS+1]
    servos,       \* the Servo objects, in order of construction
    ledc,         \* the esp32-hal-ledc calls issued by the last member call
    op,           \* the last member call: name, instance, argument, result
    value,        \* the argument of write/writeMicroseconds in SpecConv
    calls         \* the number of member calls made so far

vars == <<ServoCount, ChannelUsed, servos, ledc, op, value, calls>>

(***************************************************************************)
(* Arithmetic of the C++ build                                             *)
(***************************************************************************)
Abs(x) == IF x < 0 THEN -x ELSE x

\* C++ integer division truncates toward zero
TruncDiv(a, b) ==
    IF (a >= 0) = (b > 0) THEN Abs(a) \div Abs(b) ELSE -(Abs(a) \div Abs(b))

\* number of bits of k >= 0
RECURSIVE BitLen(_)
BitLen(k) == IF k = 0 THEN 0 ELSE 1 + BitLen(k \div 2)

\* (int)(float)(n/d) for n >= 0, d > 0 and n/d < 2^23: the exact quotient is
\* rounded to the nearest float (24-bit significand, ties to even) and the
\* cast then truncates.  With k = floor(n/d) of b bits, the floats around
\* the quotient are 2^-(24-b) apart, so the cast yields k+1 exactly when the
\* quotient lies within half of that below k+1, and k otherwise.
F32Trunc(n, d) ==
    LET k == n \div d
        j == n % d
        s == 24 - BitLen(k)
    IN  IF j # 0 /\ (d - j) <= d \div (2 ^ (s + 1)) THEN k + 1 ELSE k

RECURSIVE GCD(_, _)
GCD(a, b) == IF b = 0 THEN a ELSE GCD(b, a % b)

\* x << d for 0 < d < 32, within the range of int
ShiftLeft(x, d) == x * (2 ^ d)

\* x >> d for 0 <= d < 32 (arithmetic shift of a 32-bit int)
ShiftRight(x, d) == IF d < 31 THEN x \div (2 ^ d) ELSE IF x < 0 THEN -1 ELSE 0

\* x >>= d for d <= 0.  A negative shift count is undefined behaviour: the
\* shifter of the target takes the count modulo 32, a compiler may equally
\* conclude that the count is 0 and drop the shift.
ShiftRightOutcomes(x, d) ==
    IF d = 0 THEN {x} ELSE {ShiftRight(x, d % 32), x}

(***************************************************************************)
(* Pulse converter                                                         *)
(***************************************************************************)
\* the quotient rounded to the nearest tick instead of truncated
usToTicksNearest(s, usec) ==
    LET g == GCD(REFRESH_USEC, s.timer_width_ticks)
        n == Abs(usec) * (s.timer_width_ticks \div g)
        d == REFRESH_USEC \div g
        t == (2 * n + d) \div (2 * d)
    IN  IF usec < 0 THEN -t ELSE t

\* (int)((float)usec / ((float)REFRESH_USEC / (float)timer_width_ticks)).
\* REFRESH_USEC / 2^w is exact in float for w in 16..20, so the only rounding
\* is that of the final division.
usToTicks(s, usec) ==
    LET g == GCD(REFRESH_USEC, s.timer_width_ticks)
        t == F32Trunc(Abs(usec) * (s.timer_width_ticks \div g),
                      REFRESH_USEC \div g)
    IN  IF usec < 0 THEN -t ELSE t

\* the tick length of the default timer width instead of the current one
ticksToUsDefaultWidth(s, ticks) ==
    LET g == GCD(REFRESH_USEC, 2 ^ DEFAULT_TIMER_WIDTH)
        u == F32Trunc(Abs(ticks) * (REFRESH_USEC \div g),
                      (2 ^ DEFAULT_TIMER_WIDTH) \div g)
    IN  IF ticks < 0 THEN -u ELSE u

\* (int)((float)ticks * ((float)REFRESH_USEC / (float)timer_width_ticks)),
\* for |ticks| < 2^24 (so that (float)ticks is exact)
ticksToUs(s, ticks) ==
    LET g == GCD(REFRESH_USEC, s.timer_width_ticks)
        u == F32Trunc(Abs(ticks) * (REFRESH_USEC \div g),
                      s.timer_width_ticks \div g)
    IN  IF ticks < 0 THEN -u ELSE u

\* Arduino's map(x, in_min, in_max, out_min, out_max), integer arithmetic
map(x, in_min, in_max, out_min, out_max) ==
    TruncDiv((x - in_min) * (out_max - out_min), in_max - in_min) + out_min

(***************************************************************************)
(* The esp32-hal-ledc calls, as they appear in ledc                        *)
(***************************************************************************)
ledcSetup(channel, freq, bits) == <<"ledcSetup", channel, freq, bits>>

ledcAttachPin(pin, channel) == <<"ledcAttachPin", pin, channel>>

\* the call made with the pin number already cleared
ledcDetachPinCleared(pin) == <<"ledcDetachPin", -1>>

ledcDetachPin(pin) == <<"ledcDetachPin", pin>>

ledcWrite(channel, duty) == <<"ledcWrite", channel, duty>>

(***************************************************************************)
(* Servo objects                                                           *)
(***************************************************************************)
\* the fields a constructor that got a channel has set (lines 96-105)
InitializedServo(channel) ==
    [servoChannel |-> channel,
     ticks |-> DEFAULT_PULSE_WIDTH_TICKS,
     timer_width |-> DEFAULT_TIMER_WIDTH,
     pinNumber |-> -1,
     min |-> DEFAULT_uS_LOW,
     max |-> DEFAULT_uS_HIGH,
     timer_width_ticks |-> 2 ^ DEFAULT_TIMER_WIDTH]

\* A constructor that got no channel sets servoChannel only; the other fields
\* keep whatever the object's storage held: zeroes for an object of static
\* storage, anything for one on the stack or the heap.
UninitializedServo ==
    {[servoChannel |-> 0, ticks |-> 0, timer_width |-> 0, pinNumber |-> 0,
      min |-> 0, max |-> 0, timer_width_ticks |-> 0],
     [servoChannel |-> 0, ticks |-> 7, timer_width |-> 18, pinNumber |-> 13,
      min |-> 600, max |-> 100, timer_width_ticks |-> 3]}

\* the test made on the instance's pin instead of on its slot of the pool
attachedPinBound(s) == s.pinNumber >= 0

\* bool Servo::attached(): the int ChannelUsed[servoChannel] converted to bool
attached(s) == ChannelUsed[s.servoChannel] # 0

\* int Servo::readMicroseconds()
readMicroseconds(s) ==
    IF s.servoChannel <= MAX_SERVOS /\ attached(s)
    THEN ticksToUs(s, s.ticks)
    ELSE 0

\* the mapping back to degrees over the device's range, not the instance's
readDeviceRange(s) ==
    map(readMicroseconds(s) + 1, MIN_PULSE_WIDTH, MAX_PULSE_WIDTH, 0, 180)

\* int Servo::read()
read(s) == map(readMicroseconds(s) + 1, s.min, s.max, 0, 180)

\* a scan that keeps going after the first hit: the last reusable channel
ChannelForReuseLast ==
    LET reusable == {i \in 1..MAX_SERVOS : ChannelUsed[i] = -1}
    IN  IF reusable = {} THEN 0
        ELSE CHOOSE i \in reusable : \A j \in reusable : i >= j

\* the loop of the constructor: the first channel available for reuse, 0 if none
ChannelForReuse ==
    LET reusable == {i \in 1..MAX_SERVOS : ChannelUsed[i] = -1}
    IN  IF reusable = {} THEN 0
        ELSE CHOOSE i \in reusable : \A j \in reusable : i <= j

\* the test with <= for <
HasUnusedChannelOffByOne == ServoCount <= MAX_SERVOS

\* the test of line 85: the pool has a channel that was never handed out
HasUnusedChannel == ServoCount < MAX_SERVOS

\* ServoCount++ for ++ServoCount
UnusedChannelPostIncrement == ServoCount

\* the channel of line 87, ++ServoCount
UnusedChannel == ServoCount + 1

\* the threshold taken from the instance's own minimum instead of the device's
writeArgumentOwnMin(s, v) ==
    IF v < s.min
    THEN map(IF v < 0 THEN 0 ELSE IF v > 180 THEN 180 ELSE v,
             0, 180, s.min, s.max)
    ELSE v

\* the microseconds Servo::write(value) passes to writeMicroseconds
writeArgument(s, v) ==
    IF v < MIN_PULSE_WIDTH
    THEN map(IF v < 0 THEN 0 ELSE IF v > 180 THEN 180 ELSE v,
             0, 180, s.min, s.max)
    ELSE v

\* the pulse width Servo::writeMicroseconds(value) converts
pulseWidth(s, v) == IF v < s.min THEN s.min ELSE IF v > s.max THEN s.max ELSE v

\* the requested width taken as it comes
timerWidthUnclamped(v) == v

\* the width Servo::setTimerWidth(value) sets
timerWidth(v) == IF v < 16 THEN 16 ELSE IF v > 20 THEN 20 ELSE v

Call(name, self, arg, ret) ==
    [name |-> name, self |-> self, arg |-> arg, ret |-> ret]

(***************************************************************************)
(* Init: the static initializers, no Servo object constructed yet          *)
(***************************************************************************)
Init ==
    /\ ServoCount = 0
    /\ ChannelUsed = [i \in 0..MAX_SERVOS |-> 0]
    /\ servos = <<>>
    /\ ledc = <<>>
    /\ op = Call("main", 0, 0, 0)
    /\ value = 0
    /\ calls = 0

(***************************************************************************)
(* Servo::Servo()                                                          *)
(***************************************************************************)
Servo ==
    /\ Len(servos) < MaxInstances
    /\ LET reuse == ChannelForReuse
       IN  IF reuse # 0
           THEN /\ ChannelUsed' = [ChannelUsed EXCEPT ![reuse] = 1]
                /\ ServoCount' = ServoCount
                /\ servos' = Append(servos, InitializedServo(reuse))
           ELSE IF HasUnusedChannel
           THEN /\ ServoCount' = ServoCount + 1
                /\ ChannelUsed' = [ChannelUsed EXCEPT ![UnusedChannel] = 1]
                /\ servos' = Append(servos, InitializedServo(UnusedChannel))
           ELSE /\ UNCHANGED <<ServoCount, ChannelUsed>>
                /\ \E s \in UninitializedServo : servos' = Append(servos, s)
    /\ ledc' = <<>>
    /\ op' = Call("Servo", Len(servos) + 1, 0, 0)
    /\ UNCHANGED value

(***************************************************************************)
(* int Servo::attach(int pin, int min, int max)                            *)
(***************************************************************************)
attach(self, pin, min, max) ==
    LET s == servos[self]
        fresh == IF s.pinNumber < 0
                 THEN [s EXCEPT !.ticks = DEFAULT_PULSE_WIDTH_TICKS,
                                !.timer_width = DEFAULT_TIMER_WIDTH,
                                !.timer_width_ticks = 2 ^ DEFAULT_TIMER_WIDTH]
                 ELSE s
        bound == [fresh EXCEPT
                    !.pinNumber = pin,
                    !.min = IF min < MIN_PULSE_WIDTH THEN MIN_PULSE_WIDTH ELSE min,
                    !.max = IF max > MAX_PULSE_WIDTH THEN MAX_PULSE_WIDTH ELSE max]
    IN  IF s.servoChannel <= MAX_SERVOS /\ s.servoChannel > 0
        THEN /\ ChannelUsed' = IF s.pinNumber < 0
                               THEN [ChannelUsed EXCEPT ![s.servoChannel] = 1]
                               ELSE ChannelUsed
             /\ servos' = [servos EXCEPT ![self] = bound]
             /\ ledc' = <<ledcSetup(s.servoChannel, REFRESH_CPS, bound.timer_width),
                          ledcAttachPin(pin, s.servoChannel)>>
             /\ op' = Call("attach", self, pin, 1)
             /\ UNCHANGED <<ServoCount, value>>
        ELSE /\ ledc' = <<>>
             /\ op' = Call("attach", self, pin, 0)
             /\ UNCHANGED <<ServoCount, ChannelUsed, servos, value>>

\* int Servo::attach(int pin)
attachDefault(self, pin) == attach(self, pin, DEFAULT_uS_LOW, DEFAULT_uS_HIGH)

(***************************************************************************)
(* void Servo::detach()                                                    *)
(***************************************************************************)
\* a detach that tags the slot as never used instead of as reusable
detachToUnused(self) ==
    LET s == servos[self]
    IN  /\ IF attached(s)
           THEN /\ ledc' = <<ledcDetachPin(s.pinNumber)>>
                /\ ChannelUsed' = [ChannelUsed EXCEPT ![s.servoChannel] = 0]
                /\ servos' = [servos EXCEPT ![self].pinNumber = -1]
           ELSE /\ ledc' = <<>>
                /\ UNCHANGED <<ChannelUsed, servos>>
        /\ op' = Call("detach", self, 0, 0)
        /\ UNCHANGED <<ServoCount, value>>

detach(self) ==
    LET s == servos[self]
    IN  /\ IF attached(s)
           THEN /\ ledc' = <<ledcDetachPin(s.pinNumber)>>
                /\ ChannelUsed' = [ChannelUsed EXCEPT ![s.servoChannel] = -1]
                /\ servos' = [servos EXCEPT ![self].pinNumber = -1]
           ELSE /\ ledc' = <<>>
                /\ UNCHANGED <<ChannelUsed, servos>>
        /\ op' = Call("detach", self, 0, 0)
        /\ UNCHANGED <<ServoCount, value>>

(***************************************************************************)
(* void Servo::writeMicroseconds(int value)                                *)
(***************************************************************************)
\* the body, shared by write, which ends in a call of writeMicroseconds
writeTicks(self, v) ==
    LET s == servos[self]
        t == usToTicks(s, pulseWidth(s, v))
    IN  IF s.servoChannel <= MAX_SERVOS /\ attached(s)
        THEN /\ servos' = [servos EXCEPT ![self].ticks = t]
             /\ ledc' = <<ledcWrite(s.servoChannel, t)>>
        ELSE /\ ledc' = <<>>
             /\ UNCHANGED servos

writeMicroseconds(self, v) ==
    /\ writeTicks(self, v)
    /\ op' = Call("writeMicroseconds", self, v, 0)
    /\ UNCHANGED <<ServoCount, ChannelUsed, value>>

(***************************************************************************)
(* void Servo::write(int value)                                            *)
(***************************************************************************)
write(self, v) ==
    /\ writeTicks(self, writeArgument(servos[self], v))
    /\ op' = Call("write", self, v, 0)
    /\ UNCHANGED <<ServoCount, ChannelUsed, value>>

(***************************************************************************)
(* void Servo::setTimerWidth(int value)                                    *)
(***************************************************************************)
setTimerWidth(self, v) ==
    LET s == servos[self]
        width == timerWidth(v)
        widthDifference == s.timer_width - width
        shifted == IF widthDifference > 0
                   THEN {ShiftLeft(s.ticks, widthDifference)}
                   ELSE ShiftRightOutcomes(s.ticks, widthDifference)
    IN  /\ \E t \in shifted :
              servos' = [servos EXCEPT ![self].ticks = t,
                                       ![self].timer_width = width,
                                       ![self].timer_width_ticks = 2 ^ width]
        /\ ledc' = IF s.servoChannel <= MAX_SERVOS /\ attached(s)
                   THEN <<ledcDetachPin(s.pinNumber),
                          ledcSetup(s.servoChannel, REFRESH_CPS, width),
                          ledcAttachPin(s.pinNumber, s.servoChannel)>>
                   ELSE <<>>
        /\ op' = Call("setTimerWidth", self, v, 0)
        /\ UNCHANGED <<ServoCount, ChannelUsed, value>>

(***************************************************************************)
(* A sketch: up to MaxCalls member calls, each on any constructed object   *)
(***************************************************************************)
Called(A) == calls < MaxCalls /\ calls' = calls + 1 /\ A

Next ==
    \/ Called(Servo)
    \/ \E self \in 1..Len(servos), pin \in Pins : Called(attachDefault(self, pin))
    \/ \E self \in 1..Len(servos), pin \in Pins, b \in AttachBounds :
          Called(attach(self, pin, b[1], b[2]))
    \/ \E self \in 1..Len(servos) : Called(detach(self))
    \/ \E self \in 1..Len(servos), v \in WriteInputs : Called(write(self, v))
    \/ \E self \in 1..Len(servos), v \in PulseInputs :
          Called(writeMicroseconds(self, v))
    \/ \E self \in 1..Len(servos), v \in WidthInputs :
          Called(setTimerWidth(self, v))

Spec == Init /\ [][Next]_vars

(***************************************************************************)
(* A sketch that never detaches                                            *)
(***************************************************************************)
NextNoDetach ==
    \/ Called(Servo)
    \/ \E self \in 1..Len(servos), pin \in Pins : Called(attachDefault(self, pin))
    \/ \E self \in 1..Len(servos), pin \in Pins, b \in AttachBounds :
          Called(attach(self, pin, b[1], b[2]))
    \/ \E self \in 1..Len(servos), v \in WriteInputs : Called(write(self, v))
    \/ \E self \in 1..Len(servos), v \in PulseInputs :
          Called(writeMicroseconds(self, v))
    \/ \E self \in 1..Len(servos), v \in WidthInputs :
          Called(setTimerWidth(self, v))

SpecNoDetach == Init /\ [][NextNoDetach]_vars

(***************************************************************************)
(* The conversions: a sketch that constructs one servo, attaches it, may   *)
(* set the timer width, and then writes the value drawn at the start       *)
(***************************************************************************)
InitConv ==
    /\ ServoCount = 0
    /\ ChannelUsed = [i \in 0..MAX_SERVOS |-> 0]
    /\ servos = <<>>
    /\ ledc = <<>>
    /\ op = Call("main", 0, 0, 0)
    /\ value \in (0 - PulseBelow)..PulseLast
    /\ calls = 0

NextConv ==
    \/ servos = <<>> /\ Called(Servo)
    \/ op.name = "Servo" /\ \E pin \in Pins : Called(attachDefault(1, pin))
    \/ op.name = "Servo" /\ \E pin \in Pins, b \in ConvBounds :
          Called(attach(1, pin, b[1], b[2]))
    \/ op.name = "attach" /\ \E v \in ConvWidths : Called(setTimerWidth(1, v))
    \/ op.name \in {"attach", "setTimerWidth"} /\ Called(write(1, value))
    \/ op.name \in {"attach", "setTimerWidth"}
          /\ Called(writeMicroseconds(1, value))

SpecConv == InitConv /\ [][NextConv]_vars

(***************************************************************************)
(* The timer width: a sketch with one servo that attaches, detaches,       *)
(* writes and sets any timer width, in any order                           *)
(***************************************************************************)
NextWidth ==
    \/ servos = <<>> /\ Called(Servo)
    \/ servos # <<>> /\ \E pin \in Pins : Called(attachDefault(1, pin))
    \/ servos # <<>> /\ Called(detach(1))
    \/ servos # <<>> /\ \E v \in PulseInputs : Called(writeMicroseconds(1, v))
    \/ servos # <<>> /\ \E v \in TimerWidths : Called(setTimerWidth(1, v))

SpecWidth == Init /\ [][NextWidth]_vars

(***************************************************************************)
(* Properties                                                              *)
(***************************************************************************)
\* the object a member call was made on, and a construction step
Self == servos[op.self]

Reclaimable == {i \in 1..MAX_SERVOS : ChannelUsed[i] = -1}

Constructed == Len(servos') = Len(servos) + 1

\* C1: without any detach, the i-th constructed instance holds channel i for
\* every i up to MAX_SERVOS, so the first N <= MAX_SERVOS instances hold
\* pairwise distinct channels that are exactly 1..N.  (Stated for
\* SpecNoDetach, whose sketches never call detach.)
C1_ConstructionOrder ==
    LET N == IF Len(servos) < MAX_SERVOS THEN Len(servos) ELSE MAX_SERVOS
    IN  /\ \A i \in 1..N : servos[i].servoChannel = i
        /\ \A i, j \in 1..N : i # j => servos[i].servoChannel # servos[j].servoChannel
        /\ {servos[i].servoChannel : i \in 1..N} = 1..N

C1_Witness ==
    /\ op.name = "Servo"
    /\ op.self = MAX_SERVOS
    /\ servos[MAX_SERVOS].servoChannel = MAX_SERVOS

\* C2: a construction in a state with a Reclaimable slot gives the new
\* instance the lowest-indexed Reclaimable slot, tags that slot InUse and
\* leaves ServoCount, every other slot and every other instance unchanged;
\* in particular a construction right after the detach of instance A, whose
\* slot is then the lowest Reclaimable one, gives the new instance A's channel.
C2_ReclaimLowest ==
    [][(Constructed /\ Reclaimable # {}) =>
         LET low == CHOOSE i \in Reclaimable : \A j \in Reclaimable : i <= j
             new == servos'[Len(servos')]
         IN  /\ new.servoChannel = low
             /\ ChannelUsed' = [ChannelUsed EXCEPT ![low] = 1]
             /\ ServoCount' = ServoCount
             /\ SubSeq(servos', 1, Len(servos)) = servos
             /\ (op.name = "detach" /\ Self.servoChannel = low
                    => new.servoChannel = Self.servoChannel)]_vars

\* a construction has reclaimed the lower of two Reclaimable slots
C2_Witness ==
    /\ op.name = "Servo"
    /\ Len(servos) = 3
    /\ servos[3].servoChannel = 1
    /\ servos[1].servoChannel = 1
    /\ ChannelUsed[1] = 1
    /\ ChannelUsed[2] = -1

\* C3: a construction when ServoCount = MAX_SERVOS and no slot is Reclaimable
\* gives the new instance channel 0 and leaves every slot and ServoCount
\* unchanged.
C3_Exhausted ==
    [][(Constructed /\ ServoCount = MAX_SERVOS /\ Reclaimable = {}) =>
         /\ servos'[Len(servos')].servoChannel = 0
         /\ ChannelUsed' = ChannelUsed
         /\ ServoCount' = ServoCount]_vars

C3_Witness ==
    /\ op.name = "Servo"
    /\ Self.servoChannel = 0
    /\ ServoCount = MAX_SERVOS
    /\ \A i \in 1..MAX_SERVOS : ChannelUsed[i] = 1

\* a member call of the given name has just been made
Did(name) == calls' = calls + 1 /\ op'.name = name

\* the instance has a channel of the pool and a pin bound to it
Bound(s) == s.servoChannel > 0 /\ s.pinNumber >= 0

Clamp(x, lo, hi) == IF x < lo THEN lo ELSE IF x > hi THEN hi ELSE x

\* trunc(u / (20000 / 2^w)) in exact arithmetic, u >= 0 (20000 / 2^w = 625 / 2^(w-5))
ExactTicks(u, w) == (u * (2 ^ (w - 5))) \div 625

\* C4: no two instances that both have a pin bound hold the same non-zero
\* channel.
C4_UniqueChannel ==
    \A i, j \in 1..Len(servos) :
        (i # j /\ Bound(servos[i]) /\ Bound(servos[j]))
            => servos[i].servoChannel # servos[j].servoChannel

\* C5: right after detach() on an instance with a valid channel that was
\* attached to a pin, attached() is false and readMicroseconds() is 0.
C5_DetachedReadsZero ==
    (op.name = "detach" /\ Self.servoChannel > 0
        /\ \E pin \in Pins : ledc = <<ledcDetachPin(pin)>>)
    => (~attached(Self) /\ readMicroseconds(Self) = 0)

\* C6: writeMicroseconds on an instance that has no pin bound (never
\* attached, or detached and not attached again) leaves the stored ticks
\* unchanged and issues no ledcWrite.
C6_UnattachedWriteIsNoOp ==
    [][(Did("writeMicroseconds") /\ servos[op'.self].pinNumber < 0)
          => (servos' = servos /\ ledc' = <<>>)]_vars

C8_RoundTrip ==
    /\ (servos # <<>> /\ servos[1].servoChannel > 0
          /\ value \in MIN_PULSE_WIDTH..MAX_PULSE_WIDTH)
       => /\ servos[1].timer_width \in 16..20
          /\ ticksToUs(servos[1], usToTicks(servos[1], value)) \in {value - 1, value}
    /\ (op.name = "writeMicroseconds" /\ Bound(Self) /\ Self.min <= Self.max)
       => LET us == Clamp(op.arg, Self.min, Self.max)
          IN  /\ readMicroseconds(Self) \in {us - 1, us}
              /\ (us = 1500 /\ Self.timer_width = 16) => readMicroseconds(Self) = 1499

C8_Witness ==
    /\ op.name = "writeMicroseconds"
    /\ op.arg = 2000
    /\ Bound(Self)
    /\ Self.timer_width = 19
    /\ Self.max = MAX_PULSE_WIDTH
    /\ readMicroseconds(Self) = 1999

\* C9: write(v) has the effect of writeMicroseconds(v) for v >= 500 and of
\* writeMicroseconds(clamp(v, 0, 180) * (max - min) / 180 + min), the division
\* truncating, for v < 500; with the default bounds write(0), write(90) and
\* write(180) forward 544, 1472 and 2400.
C9_WriteForwards ==
    [][Did("write") =>
         LET s == servos[op'.self]
             v == op'.arg
             us == IF v >= 500 THEN v
                   ELSE TruncDiv(Clamp(v, 0, 180) * (s.max - s.min), 180) + s.min
         IN  /\ writeTicks(op'.self, us)
             /\ (s.min = 544 /\ s.max = 2400)
                   => /\ v = 0 => us = 544
                      /\ v = 90 => us = 1472
                      /\ v = 180 => us = 2400]_vars

\* write(90) with the default bounds has stored the ticks of 1472 us
C9_Witness ==
    /\ op.name = "write"
    /\ op.arg = 90
    /\ Bound(Self)
    /\ Self.min = 544 /\ Self.max = 2400
    /\ Self.timer_width = 16
    /\ Self.ticks = ExactTicks(1472, 16)
    /\ ledc = <<ledcWrite(1, Self.ticks)>>

\* C10: with the default bounds 544/2400 and the 16-bit timer width, after
\* write(angle) on an instance with a pin bound, for every angle in 0..180,
\* read() is within 1 of angle.
C10_AngleRoundTrip ==
    (op.name = "write" /\ op.arg \in 0..180 /\ Bound(Self)
        /\ Self.min = DEFAULT_uS_LOW /\ Self.max = DEFAULT_uS_HIGH
        /\ Self.timer_width = 16)
    => Abs(read(Self) - op.arg) <= 1

C10_Witness ==
    /\ op.name = "write"
    /\ op.arg = 90
    /\ Bound(Self)
    /\ Self.min = DEFAULT_uS_LOW /\ Self.max = DEFAULT_uS_HIGH
    /\ Self.timer_width = 16
    /\ read(Self) \in {89, 90}

\* C11: setTimerWidth on an instance with a pin bound, called right after a
\* write or writeMicroseconds on that instance, leaves readMicroseconds()
\* within 4 us of its value before the call.
C11_WidthKeepsPulse ==
    [][(Did("setTimerWidth") /\ op.name \in {"write", "writeMicroseconds"}
          /\ op.self = op'.self /\ Bound(Self))
          => Abs(readMicroseconds(servos'[op'.self]) - readMicroseconds(Self)) <= 4]_vars

\* C12: after a successful attach(pin, min, max) the stored min and max both
\* lie in MIN_PULSE_WIDTH..MAX_PULSE_WIDTH, and the ticks a write or
\* writeMicroseconds on an instance with a pin bound passes to ledcWrite are
\* usToTicks(u) for some u in that range.
C12_BoundsClamped ==
    /\ (op.name = "attach" /\ op.ret = 1)
       => /\ Self.min \in MIN_PULSE_WIDTH..MAX_PULSE_WIDTH
          /\ Self.max \in MIN_PULSE_WIDTH..MAX_PULSE_WIDTH
    /\ (op.name \in {"write", "writeMicroseconds"} /\ Bound(Self))
       => \E u \in MIN_PULSE_WIDTH..MAX_PULSE_WIDTH :
             ledc = <<ledcWrite(Self.servoChannel, usToTicks(Self, u))>>

\* C13: an instance that got channel 0 at construction is never attached()
\* and reads 0 microseconds in every state, its attach returns 0, and no
\* attach, detach, write, writeMicroseconds or setTimerWidth on it changes a
\* slot of the pool or issues a ledc call.
C13_SentinelInert ==
    /\ [](\A i \in 1..Len(servos) :
             servos[i].servoChannel = 0
                => (~attached(servos[i]) /\ readMicroseconds(servos[i]) = 0))
    /\ [][(calls' = calls + 1 /\ op'.name # "Servo"
             /\ servos[op'.self].servoChannel = 0)
            => /\ ChannelUsed' = ChannelUsed
               /\ ledc' = <<>>
               /\ op'.name = "attach" => op'.ret = 0]_vars

\* attach has failed on an instance constructed while the pool was exhausted
C13_Witness ==
    /\ op.name = "attach"
    /\ op.ret = 0
    /\ Self.servoChannel = 0
    /\ ServoCount = MAX_SERVOS
    /\ ledc = <<>>

\* C14: detach() on an instance whose pinNumber is -1 (never attached,
\* detached already, or detached and its slot reclaimed by another instance)
\* issues no ledcDetachPin and leaves every slot of the pool unchanged.
C14_DetachUnboundIsNoOp ==
    [][(Did("detach") /\ servos[op'.self].pinNumber = -1)
          => (ledc' = <<>> /\ ChannelUsed' = ChannelUsed)]_vars

\* C15: in every state 0 <= ServoCount <= MAX_SERVOS, every slot 1..ServoCount
\* is in use (1) or reusable (-1), every slot above ServoCount is unused (0)
\* and slot 0 is unused; no step changes a slot from 1 or -1 back to 0, and
\* no step decreases ServoCount.
C15_PoolInvariant ==
    /\ [](/\ ServoCount \in 0..MAX_SERVOS
          /\ DOMAIN ChannelUsed = 0..MAX_SERVOS
          /\ \A i \in 1..ServoCount : ChannelUsed[i] \in {1, -1}
          /\ \A i \in (ServoCount + 1)..MAX_SERVOS : ChannelUsed[i] = 0
          /\ ChannelUsed[0] = 0)
    /\ [][/\ \A i \in 0..MAX_SERVOS : ChannelUsed[i] # 0 => ChannelUsed'[i] # 0
          /\ ServoCount' >= ServoCount]_vars

\* every slot has been handed out and a detach has just made one of them
\* reusable while another is in use
C15_Witness ==
    /\ ServoCount = MAX_SERVOS
    /\ \E i, j \in 1..MAX_SERVOS : ChannelUsed[i] = 1 /\ ChannelUsed[j] = -1
    /\ op.name = "detach"
    /\ ledc # <<>>

\* C16: attach(pin) right after detach() on the same instance, that detach
\* having released a bound pin, leaves the stored ticks (those of the last
\* writeMicroseconds before the detach, which detach does not touch) and the
\* timer width unchanged.
C16_TicksPersist ==
    [][(Did("attach") /\ op'.ret = 1 /\ op.name = "detach" /\ op.self = op'.self
          /\ \E pin \in Pins : ledc = <<ledcDetachPin(pin)>>)
          => /\ servos'[op'.self].ticks = Self.ticks
             /\ servos'[op'.self].timer_width = Self.timer_width
             /\ servos'[op'.self].timer_width_ticks = Self.timer_width_ticks]_vars

\* C17: in every state every instance with a channel of the pool has
\* timer_width in 16..20 and timer_width_ticks = 2^timer_width; and
\* setTimerWidth(n) on such an instance sets timer_width to clamp(n, 16, 20)
\* and leaves its channel, its pin, its min and max, every other instance,
\* every slot of the pool and ServoCount unchanged.
C17_TimerWidth ==
    /\ [](\A i \in 1..Len(servos) :
             servos[i].servoChannel > 0
                => /\ servos[i].timer_width \in 16..20
                   /\ servos[i].timer_width_ticks = 2 ^ servos[i].timer_width)
    /\ [][(Did("setTimerWidth") /\ servos[op'.self].servoChannel > 0)
            => LET s == servos[op'.self]
                   t == servos'[op'.self]
               IN  /\ t.timer_width = Clamp(op'.arg, 16, 20)
                   /\ t.servoChannel = s.servoChannel
                   /\ t.pinNumber = s.pinNumber
                   /\ t.min = s.min /\ t.max = s.max
                   /\ \A i \in 1..Len(servos) : i # op'.self => servos'[i] = servos[i]
                   /\ ChannelUsed' = ChannelUsed
                   /\ ServoCount' = ServoCount]_vars

\* setTimerWidth(21) on an instance with pin 13 bound has set 20 bits and
\* reconfigured the channel for the same pin
C17_Witness ==
    /\ op.name = "setTimerWidth"
    /\ op.arg = 21
    /\ Bound(Self)
    /\ Self.timer_width = 20
    /\ Self.timer_width_ticks = 2 ^ 20
    /\ ledc = <<ledcDetachPin(13), ledcSetup(1, REFRESH_CPS, 20), ledcAttachPin(13, 1)>>

\* C18: detach() on an instance with a pin bound whose slot is in use tags
\* that slot reusable, sets the instance's pinNumber to -1 and calls
\* ledcDetachPin exactly once, with the pin that was bound; the instance's
\* channel, ticks, timer width, min and max, ServoCount, every other slot and
\* every other instance are unchanged.
C18_DetachFrame ==
    [][(Did("detach") /\ Bound(servos[op'.self])
          /\ ChannelUsed[servos[op'.self].servoChannel] = 1)
          => LET s == servos[op'.self]
             IN  /\ ChannelUsed' = [ChannelUsed EXCEPT ![s.servoChannel] = -1]
                 /\ servos' = [servos EXCEPT ![op'.self].pinNumber = -1]
                 /\ ledc' = << <<"ledcDetachPin", s.pinNumber>> >>
                 /\ ServoCount' = ServoCount]_vars

\* the first of two instances, on which 1500 us had been written at 17 bits,
\* has been detached: its slot is reusable, the other's is in use
C18_Witness ==
    /\ op.name = "detach"
    /\ op.self = 1
    /\ Len(servos) = 2
    /\ ledc = <<ledcDetachPin(13)>>
    /\ servos[1].pinNumber = -1
    /\ servos[1].servoChannel = 1
    /\ servos[1].timer_width = 17
    /\ servos[1].ticks = ExactTicks(1500, 17)
    /\ ChannelUsed[1] = -1
    /\ ChannelUsed[2] = 1

\* C19: every ledcWrite is issued for the channel of an instance that has
\* configured and bound it: pinNumber is written only by attach (line 132,
\* followed by ledcSetup and ledcAttachPin) and by detach (line 164), so the
\* instance's attach with no detach since is recorded by pinNumber >= 0.
C19_WriteAfterAttach ==
    \A k \in 1..Len(ledc) :
        ledc[k][1] = "ledcWrite"
            => (Bound(Self) /\ ledc[k][2] = Self.servoChannel)

\* C20: no ledcDetachPin and no ledcAttachPin, whether issued by attach,
\* detach or setTimerWidth, carries the pin number -1 of an instance that has
\* no pin bound.
C20_NoUnboundPin ==
    \A k \in 1..Len(ledc) :
        ledc[k][1] \in {"ledcDetachPin", "ledcAttachPin"} => ledc[k][2] # -1

====
